---- MODULE Spec2Model ----
(***************************************************************************)
(* Model of models/model_integration.py: the AIModelManager registry that  *)
(* load_all_models fills from three pickled artifact files, the three      *)
(* prediction methods and get_adaptive_recommendations.                    *)
(*                                                                         *)
(* Python values are modelled as follows: a dict is a function from its    *)
(* keys, a list is a sequence, a float is an integer number of hundredths, *)
(* an f-string error message is the tuple of its literal prefix and the    *)
(* interpolated exception, and the outcome of evaluating an expression is  *)
(* a record that either carries the value or the exception raised.         *)
(***************************************************************************)
EXTENDS Integers, Sequences, FiniteSets, TLC

VARIABLES
    files,              \* the artifacts directory: model file -> what is on disk
    models,             \* AIModelManager.models
    pc,                 \* "loading" while load_all_models runs, then "ready",
                        \* and "called" while a caller holds a result
    idx,                \* position of load_all_models in model_files
    attempts,           \* pickle.load calls made so far, per model file
    op,                 \* the method called last
    features,           \* its argument
    passed,             \* the DataFrames it passed to pipelines, in call order
    learner_result,     \* local of get_adaptive_recommendations
    engagement_result,  \* local of get_adaptive_recommendations
    result,             \* what the method returned
    raised,             \* TRUE when an exception left the method called last
    last_learner_type,  \* arguments of the last _generate_recommendations call
    last_engagement_level,
    model_manager,      \* the module's global model_manager
    instances,          \* the AIModelManager objects get_model_manager has
                        \* constructed, each by its registry
    tpc,                \* where each thread is in get_model_manager
    inst,               \* the object a thread has constructed and not stored yet
    returned,           \* the objects get_model_manager has returned so far
    ncalls,             \* the calls of get_model_manager made so far
    first,              \* the first call of get_adaptive_recommendations a
                        \* caller made: its argument and what came back
    calls,              \* the calls of get_adaptive_recommendations made so far
    intervening,        \* TRUE once a call after the first had other features
    analysis,           \* the AI-analysis section of the results page: "none",
                        \* "shown" or "unavailable"
    user_registered,    \* st.session_state.user_registered
    user_info,          \* st.session_state.user_info
    quiz_results,       \* st.session_state.quiz_results
    quiz_history,       \* st.session_state.quiz_history
    current_quiz,       \* st.session_state.current_quiz
    current_page,       \* st.session_state.current_page
    screen,             \* the page the last script run left on screen, or
                        \* "pending" while a run of the script is due
    event,              \* what started the last script run
    answers             \* the values of the quiz page's radio widgets

vars == <<files, models, pc, idx, attempts, op, features, passed,
          learner_result, engagement_result, result, raised,
          last_learner_type, last_engagement_level,
          model_manager, instances, tpc, inst, returned, ncalls,
          first, calls, intervening, analysis,
          user_registered, user_info, quiz_results, quiz_history,
          current_quiz, current_page, screen, event, answers>>

\* the state of the module's global and of the threads calling get_model_manager
singleton == <<model_manager, instances, tpc, inst, returned, ncalls>>

\* what a caller that repeats get_adaptive_recommendations remembers
repeat == <<first, calls, intervening>>

\* st.session_state of one browser session, and what its last run rendered
session == <<user_registered, user_info, quiz_results, quiz_history,
             current_quiz, current_page, screen, event, answers>>

\* the Streamlit application around the manager
app == <<repeat, analysis, session>>

\* ------------------------------------------------------------------ bounds

\* Feature values supplied by callers range over 1..MaxVal.
MaxVal == 2
\* Threads of the process that may call get_model_manager.
NumThreads == 2
\* Calls of get_model_manager followed.
MaxCalls == 3

\* ------------------------------------------------------- python primitives

EmptyDict == [k \in {} |-> 0]

\* dict.get(k, default)
Get(d, k, default) == IF k \in DOMAIN d THEN d[k] ELSE default

\* d[k] = v
Put(d, k, v) == [x \in (DOMAIN d) \cup {k} |-> IF x = k THEN v ELSE d[x]]

\* the dict d cut down to the keys in K
Restrict(d, K) == [k \in (DOMAIN d) \cap K |-> d[k]]

\* outcome of an expression: a value, or an exception
Value(v) == [raises |-> FALSE, value |-> v]
Raise(e) == [raises |-> TRUE, exc |-> e]

\* Max taking the first entry (rf_proba[0]) for the largest
FirstOf(xs) == xs[1]

\* max(xs) of a non-empty list; ValueError on an empty one
Max(xs) == CHOOSE m \in {xs[i] : i \in DOMAIN xs} : \A j \in DOMAIN xs : xs[j] <= m

RECURSIVE Sum(_)
Sum(xs) == IF xs = <<>> THEN 0 ELSE Head(xs) + Sum(Tail(xs))

None == [none |-> TRUE]

\* no label: _generate_recommendations has not been called
NoLabel == "<none>"

Threads == 1..NumThreads

\* st.session_state.current_quiz = None.  generate_quiz returns one question
\* at least, so the empty list stands for None.
NoQuiz == <<>>

\* ------------------------------------------------------------ the artifacts

\* model_files of load_all_models, in the order the loop visits them
model_files == << "learner_classification_rf.pkl",
                  "performance_prediction_gb.pkl",
                  "engagement_analysis_rf.pkl" >>

\* model_file.replace('.pkl', '')
ModelName(model_file) ==
    CASE model_file = "learner_classification_rf.pkl" -> "learner_classification_rf"
      [] model_file = "performance_prediction_gb.pkl" -> "performance_prediction_gb"
      [] model_file = "engagement_analysis_rf.pkl"    -> "engagement_analysis_rf"

ModelNames == {ModelName(model_files[i]) : i \in DOMAIN model_files}

\* feature_cols of the three prediction methods
LearnerCols == << "accuracy", "total_questions", "avg_time_seconds",
                  "avg_attempts", "avg_hints_used", "consistency",
                  "speed_accuracy_tradeoff", "persistence", "engagement",
                  "efficiency" >>

PerformanceCols == << "attempts", "time_taken_seconds", "hints_used",
                      "attempt_efficiency" >>

EngagementCols == << "total_interactions", "avg_accuracy", "accuracy_std",
                     "avg_attempts", "avg_time" >>

\* feature_cols the trainer stores as feature_names in the artifact it saves
TrainerCols(model_name) ==
    CASE model_name = "learner_classification_rf" ->
             << "accuracy", "total_questions", "avg_time_seconds",
                "avg_attempts", "avg_hints_used", "consistency",
                "speed_accuracy_tradeoff", "persistence", "engagement",
                "efficiency" >>
      [] model_name = "performance_prediction_gb" ->
             << "attempts", "time_taken_seconds", "hints_used",
                "attempt_efficiency" >>
      [] model_name = "engagement_analysis_rf" ->
             << "total_interactions", "avg_accuracy", "accuracy_std",
                "avg_attempts", "avg_time" >>

\* A feature list other than the trainer's full one.  The performance trainer
\* keeps only the columns its data has, any other producer may order or pick
\* its columns differently: the loader accepts the artifact all the same.
OtherCols(model_name) ==
    CASE model_name = "learner_classification_rf" ->
             << "total_questions", "accuracy", "avg_attempts" >>
      [] model_name = "performance_prediction_gb" ->
             << "attempts", "hints_used" >>
      [] model_name = "engagement_analysis_rf" ->
             << "avg_attempts", "total_interactions", "avg_accuracy" >>

\* the labels the trained classifier of each model predicts
ClassesOf(model_name) ==
    CASE model_name = "learner_classification_rf" ->
             << "advanced", "moderate", "struggling" >>
      [] model_name = "performance_prediction_gb" -> << "0", "1" >>
      [] model_name = "engagement_analysis_rf" -> << "low", "medium", "high" >>

\* A pickled sklearn Pipeline: whether it was fitted and whether its final
\* estimator has predict_proba, and the classes_ it predicts.
FitKinds == {"fitted", "unfitted", "no_proba"}
Pipeline(fit, labels) == [fit |-> fit, labels |-> labels]

\* model_data as the trainer builds and pickles it
ModelData(model_name, fit, feature_cols) ==
    [pipeline      |-> Pipeline(fit, ClassesOf(model_name)),
     feature_names |-> feature_cols,
     classes       |-> ClassesOf(model_name),
     accuracy      |-> 87,
     cv_mean       |-> 85,
     cv_std        |-> 2]

\* what unpickling a file can yield: a dict, or some other object
Dict(d) == [isdict |-> TRUE, d |-> d]
NotADict == [isdict |-> FALSE]

Trained(model_name) == ModelData(model_name, "fitted", TrainerCols(model_name))

\* The labels of a classifier trained on other data: the trainer takes the
\* classes from the label column of the data it is given.
OtherClassesOf(model_name) ==
    CASE model_name = "learner_classification_rf" ->
             << "advanced", "moderate", "struggling", "expert" >>
      [] model_name = "performance_prediction_gb" -> << "0", "1" >>
      [] model_name = "engagement_analysis_rf" ->
             << "low", "medium", "high", "very_high" >>

\* model_data of a model trained on that other data
Retrained(model_name) ==
    [Trained(model_name) EXCEPT
        !.pipeline = Pipeline("fitted", OtherClassesOf(model_name)),
        !.classes  = OtherClassesOf(model_name)]

\* objects a file may deserialize to on the first attempt
Objects(model_name) ==
    { NotADict,
      Dict(Trained(model_name)),
      Dict(Retrained(model_name)),
      Dict(Restrict(Trained(model_name),
                    {"feature_names", "classes", "accuracy", "cv_mean", "cv_std"})),
      Dict(Restrict(Trained(model_name), {"pipeline"})),
      Dict(ModelData(model_name, "fitted", OtherCols(model_name))),
      Dict(ModelData(model_name, "unfitted", TrainerCols(model_name))),
      Dict(ModelData(model_name, "no_proba", TrainerCols(model_name))) }

\* objects a file may deserialize to on the fallback attempt only
FallbackObjects(model_name) ==
    { NotADict,
      Dict(Restrict(Trained(model_name), {"pipeline", "accuracy", "cv_std"})) }

\* What can be on disk at model_path: nothing, or a file described by what
\* pickle.load(f) and pickle.load(f, encoding='latin1') do with it.
Missing == [exists |-> FALSE]

FileContents(model_name) ==
    {Missing}
    \cup { [exists |-> TRUE, first |-> Value(o), second |-> Value(o)]
             : o \in Objects(model_name) }
    \cup { [exists |-> TRUE, first |-> Raise("UnpicklingError"),
                             second |-> Raise("UnpicklingError")] }
    \cup { [exists |-> TRUE, first |-> Raise("UnicodeDecodeError"),
                             second |-> Value(o)]
             : o \in FallbackObjects(model_name) }

\* --------------------------------------------------------- load_all_models

\* isinstance(model_data, dict) and 'pipeline' in model_data
IsArtifact(model_data) == model_data.isdict /\ "pipeline" \in DOMAIN model_data.d

\* Entry with the two list fields taken from each other's key
EntrySwapped(model_data) ==
    [pipeline      |-> model_data.d["pipeline"],
     feature_names |-> Get(model_data.d, "classes", <<>>),
     classes       |-> Get(model_data.d, "feature_names", <<>>),
     accuracy      |-> Get(model_data.d, "accuracy", 0)]

\* the registry entry built from model_data
Entry(model_data) ==
    [pipeline      |-> model_data.d["pipeline"],
     feature_names |-> Get(model_data.d, "feature_names", <<>>),
     classes       |-> Get(model_data.d, "classes", <<>>),
     accuracy      |-> Get(model_data.d, "accuracy", 0)]

\* Register without the 'pipeline' test: any dict is registered
RegisterAnyDict(ms, model_name, model_data) ==
    IF model_data.isdict
    THEN Put(ms, model_name,
             [pipeline      |-> Get(model_data.d, "pipeline", None),
              feature_names |-> Get(model_data.d, "feature_names", <<>>),
              classes       |-> Get(model_data.d, "classes", <<>>),
              accuracy      |-> Get(model_data.d, "accuracy", 0)])
    ELSE ms

\* self.models[model_name] = {...} when model_data passes the format test
Register(ms, model_name, model_data) ==
    IF IsArtifact(model_data) THEN Put(ms, model_name, Entry(model_data)) ELSE ms

\* FirstFails with an invalid format treated as a failed attempt too
FirstFailsOrInvalid(file) ==
    file.first.raises
    \/ ~(file.first.value.isdict /\ "pipeline" \in DOMAIN file.first.value.d)

\* the except clause of the first attempt is entered
FirstFails(file) == file.first.raises

\* SecondEscapes without the except clause around the alternative method
SecondEscapesUncaught(file) == file.second.raises

\* the bare except clause of the alternative method swallows the failure
SecondEscapes(file) == FALSE

\* One iteration of the loop over model_files: the registry afterwards, the
\* number of pickle.load calls made, and whether an exception escaped.
LoadFile(ms, file, model_name) ==
    IF ~file.exists
    THEN [models |-> ms, loads |-> 0, raises |-> FALSE]
    ELSE IF ~FirstFails(file)
    THEN [models |-> Register(ms, model_name, file.first.value),
          loads |-> 1, raises |-> FALSE]
    ELSE IF file.second.raises
    THEN [models |-> ms, loads |-> 2, raises |-> SecondEscapes(file)]
    ELSE [models |-> Register(ms, model_name, file.second.value),
          loads |-> 2, raises |-> FALSE]

Init ==
    /\ files \in [ {model_files[i] : i \in DOMAIN model_files} ->
                   UNION {FileContents(n) : n \in ModelNames} ]
    /\ \A i \in DOMAIN model_files :
           files[model_files[i]] \in FileContents(ModelName(model_files[i]))
    /\ models = EmptyDict
    /\ pc = "loading"
    /\ idx = 1
    /\ attempts = [f \in {model_files[i] : i \in DOMAIN model_files} |-> 0]
    /\ op = "__init__"
    /\ features = EmptyDict
    /\ passed = <<>>
    /\ learner_result = None
    /\ engagement_result = None
    /\ result = None
    /\ raised = FALSE
    /\ last_learner_type = NoLabel
    /\ last_engagement_level = NoLabel
    /\ model_manager = None
    /\ instances = <<>>
    /\ tpc = [t \in Threads |-> "idle"]
    /\ inst = [t \in Threads |-> None]
    /\ returned = {}
    /\ ncalls = 0
    /\ first = None
    /\ calls = 0
    /\ intervening = FALSE
    /\ analysis = "none"
    /\ user_registered = FALSE
    /\ user_info = EmptyDict
    /\ quiz_results = <<>>
    /\ quiz_history = <<>>
    /\ current_quiz = NoQuiz
    /\ current_page = "home"
    /\ screen = "pending"
    /\ event = "open"
    /\ answers = <<>>

\* load_all_models, one model file per step
LoadModelFile ==
    /\ pc = "loading"
    /\ LET model_file == model_files[idx]
           out == LoadFile(models, files[model_file], ModelName(model_file))
       IN /\ models' = out.models
          /\ attempts' = [attempts EXCEPT ![model_file] = out.loads]
          /\ raised' = out.raises
          /\ pc' = IF out.raises THEN "aborted"
                   ELSE IF idx = Len(model_files) THEN "ready" ELSE "loading"
          /\ idx' = idx + 1
    /\ UNCHANGED <<files, op, features, passed, learner_result,
                   engagement_result, result, last_learner_type, last_engagement_level>>
    /\ UNCHANGED singleton
    /\ UNCHANGED app

\* ------------------------------------------------------- the sklearn pipeline

\* pd.DataFrame([[student_features.get(col, 0) for col in feature_cols]],
\*              columns=feature_cols): the single row, built column by column
RECURSIVE BuildRow(_, _)
BuildRow(student_features, feature_cols) ==
    IF feature_cols = <<>> THEN <<>>
    ELSE <<Get(student_features, Head(feature_cols), 0)>>
         \o BuildRow(student_features, Tail(feature_cols))

\* DataFrame whose row leaves out the columns the features lack
DataFrameSkipping(student_features, feature_cols) ==
    [columns |-> feature_cols,
     row |-> SelectSeq(BuildRow(student_features, feature_cols),
                       LAMBDA v : v # 0)]

DataFrame(student_features, feature_cols) ==
    [columns |-> feature_cols, row |-> BuildRow(student_features, feature_cols)]

\* The class a fitted pipeline decides on for X: a fixed function of the row.
ClassIndex(pipeline, X) == (Sum(X.row) % Len(pipeline.labels)) + 1

\* A feature value that cannot be converted to a number, such as the string
\* "abc"; every other value of the model is a number.
NonNumeric == -1

\* Convertible of a pipeline that imputes what it cannot convert
ConvertibleAlways(X) == TRUE

\* The pipeline's scaler converts the row to floats: every entry must be a
\* number.
Convertible(X) == \A j \in DOMAIN X.row : X.row[j] # NonNumeric

\* pipeline.predict(X)[0]
Predict(pipeline, X) ==
    IF pipeline.fit = "unfitted" THEN Raise("NotFittedError")
    ELSE IF ~Convertible(X) THEN Raise("ValueError")
    ELSE Value(pipeline.labels[ClassIndex(pipeline, X)])

\* The class probabilities of a fitted classifier of n classes that decides
\* on class c, in hundredths.  The forest predicts the first class of maximal
\* probability, so c has the maximum; on some rows the class after c ties
\* with it, on the others most of the mass is on c.
Distribution(n, c, s) ==
    IF (s % 2 = 1) /\ c < n
    THEN [i \in 1..n |-> IF i \in {c, c + 1} THEN 50 - (5 * (n - 2)) ELSE 10]
    ELSE [i \in 1..n |->
             IF i = c THEN 100 - (10 * (n - 1)) - (s % 10)
             ELSE 10 + (IF i = (c % n) + 1 THEN (s % 10) ELSE 0)]

\* pipeline.predict_proba(X)[0]
PredictProba(pipeline, X) ==
    IF pipeline.fit = "unfitted" THEN Raise("NotFittedError")
    ELSE IF pipeline.fit = "no_proba" THEN Raise("AttributeError")
    ELSE IF ~Convertible(X) THEN Raise("ValueError")
    ELSE Value(Distribution(Len(pipeline.labels), ClassIndex(pipeline, X),
                            Sum(X.row)))

\* ------------------------------------------------------ prediction methods

\* Except without the handler: the exception leaves the method
ExceptUncaught(prefix, e) == Raise(e)

\* except Exception as e: return {"error": f"<prefix>{str(e)}"}
Except(prefix, e) == Value([error |-> <<prefix, e>>])

\* predict_learner_type keeping the label it has when predict_proba raises
predict_learner_type_partial(ms, student_features) ==
    IF "learner_classification_rf" \notin DOMAIN ms
    THEN Value([error |-> <<"Learner classification model not loaded">>])
    ELSE LET X == DataFrame(student_features, LearnerCols)
             rf_model == ms["learner_classification_rf"].pipeline
             rf_pred == Predict(rf_model, X)
             rf_proba == PredictProba(rf_model, X)
         IN IF rf_pred.raises THEN Except("Prediction failed: ", rf_pred.exc)
            ELSE IF rf_proba.raises
            THEN Value([error |-> <<"Prediction failed: ", rf_proba.exc>>,
                        learner_type |-> rf_pred.value,
                        rf_prediction |-> rf_pred.value])
            ELSE Value([learner_type  |-> rf_pred.value,
                        confidence    |-> Max(rf_proba.value),
                        rf_prediction |-> rf_pred.value,
                        rf_confidence |-> Max(rf_proba.value)])

\* predict_learner_type: what it returns (or raises)
predict_learner_type(ms, student_features) ==
    IF "learner_classification_rf" \notin DOMAIN ms
    THEN Value([error |-> <<"Learner classification model not loaded">>])
    ELSE LET X == DataFrame(student_features, LearnerCols)
             rf_model == ms["learner_classification_rf"].pipeline
             rf_pred == Predict(rf_model, X)
             rf_proba == PredictProba(rf_model, X)
         IN IF rf_pred.raises THEN Except("Prediction failed: ", rf_pred.exc)
            ELSE IF rf_proba.raises THEN Except("Prediction failed: ", rf_proba.exc)
            ELSE Value([learner_type  |-> rf_pred.value,
                        confidence    |-> Max(rf_proba.value),
                        rf_prediction |-> rf_pred.value,
                        rf_confidence |-> Max(rf_proba.value)])

\* predict_performance: what it returns (or raises); gb_proba[1] is the
\* second entry of the distribution
predict_performance(ms, question_features) ==
    IF "performance_prediction_gb" \notin DOMAIN ms
    THEN Value([error |-> <<"Performance prediction model not loaded">>])
    ELSE LET X == DataFrame(question_features, PerformanceCols)
             gb_model == ms["performance_prediction_gb"].pipeline
             gb_proba == PredictProba(gb_model, X)
         IN IF gb_proba.raises
            THEN Except("Performance prediction failed: ", gb_proba.exc)
            ELSE IF Len(gb_proba.value) < 2
            THEN Except("Performance prediction failed: ", "IndexError")
            ELSE Value([success_probability |-> gb_proba.value[2],
                        gb_probability      |-> gb_proba.value[2],
                        predicted_success   |-> gb_proba.value[2] > 50])

\* analyze_engagement answering with a neutral level when the model is absent
analyze_engagement_default(ms, behavior_features) ==
    IF "engagement_analysis_rf" \notin DOMAIN ms
    THEN Value([engagement_level |-> "medium", confidence |-> 0,
                rf_prediction |-> "medium"])
    ELSE LET X == DataFrame(behavior_features, EngagementCols)
             rf_model == ms["engagement_analysis_rf"].pipeline
             rf_pred == Predict(rf_model, X)
             rf_proba == PredictProba(rf_model, X)
         IN IF rf_pred.raises THEN Except("Engagement analysis failed: ", rf_pred.exc)
            ELSE IF rf_proba.raises
            THEN Except("Engagement analysis failed: ", rf_proba.exc)
            ELSE Value([engagement_level |-> rf_pred.value,
                        confidence       |-> Max(rf_proba.value),
                        rf_prediction    |-> rf_pred.value])

\* analyze_engagement: what it returns (or raises)
analyze_engagement(ms, behavior_features) ==
    IF "engagement_analysis_rf" \notin DOMAIN ms
    THEN Value([error |-> <<"Engagement analysis model not loaded">>])
    ELSE LET X == DataFrame(behavior_features, EngagementCols)
             rf_model == ms["engagement_analysis_rf"].pipeline
             rf_pred == Predict(rf_model, X)
             rf_proba == PredictProba(rf_model, X)
         IN IF rf_pred.raises THEN Except("Engagement analysis failed: ", rf_pred.exc)
            ELSE IF rf_proba.raises
            THEN Except("Engagement analysis failed: ", rf_proba.exc)
            ELSE Value([engagement_level |-> rf_pred.value,
                        confidence       |-> Max(rf_proba.value),
                        rf_prediction    |-> rf_pred.value])

\* The DataFrames a method hands to a pipeline, with the model they go to:
\* none when the model is not loaded.
PassedTo(ms, model_name, student_features, feature_cols) ==
    IF model_name \in DOMAIN ms
    THEN << [model |-> model_name, X |-> DataFrame(student_features, feature_cols)] >>
    ELSE <<>>

\* --------------------------------------------------------------- the callers

\* The key sets of the features mappings callers supply: keys of one schema,
\* of two, of none, in and out of schema order.
KeySets == { {},
             {"accuracy"},
             {"avg_attempts", "accuracy"},
             {"total_interactions", "avg_attempts"},
             {"attempts", "learning_progress"} }

Features == UNION { [K -> 1..MaxVal] : K \in KeySets }

\* Features mappings whose values may also be of a type that is no number
AnyFeatures == UNION { [K -> (1..MaxVal) \cup {NonNumeric}] : K \in KeySets }

\* predict_learner_type is called with features out of S and returns
PredictLearnerTypeFrom(S) ==
    /\ \E student_features \in S :
         LET out == predict_learner_type(models, student_features)
         IN /\ op' = "predict_learner_type"
            /\ features' = student_features
            /\ passed' = PassedTo(models, "learner_classification_rf",
                                  student_features, LearnerCols)
            /\ raised' = out.raises
            /\ result' = IF out.raises THEN None ELSE out.value
    /\ learner_result' = None
    /\ engagement_result' = None
    /\ last_learner_type' = NoLabel
    /\ last_engagement_level' = NoLabel
    /\ pc' = "called"
    /\ UNCHANGED <<files, models, idx, attempts>>
    /\ UNCHANGED singleton
    /\ UNCHANGED app

\* a call of predict_learner_type
PredictLearnerType ==
    /\ pc = "ready"
    /\ PredictLearnerTypeFrom(Features)

\* a call of predict_learner_type with values of any type
PredictLearnerTypeAnyValues ==
    /\ pc = "ready"
    /\ PredictLearnerTypeFrom(AnyFeatures)

\* a call of predict_performance
PredictPerformance ==
    /\ pc = "ready"
    /\ \E question_features \in Features :
         LET out == predict_performance(models, question_features)
         IN /\ op' = "predict_performance"
            /\ features' = question_features
            /\ passed' = PassedTo(models, "performance_prediction_gb",
                                  question_features, PerformanceCols)
            /\ raised' = out.raises
            /\ result' = IF out.raises THEN None ELSE out.value
    /\ learner_result' = None
    /\ engagement_result' = None
    /\ last_learner_type' = NoLabel
    /\ last_engagement_level' = NoLabel
    /\ pc' = "called"
    /\ UNCHANGED <<files, models, idx, attempts>>
    /\ UNCHANGED singleton
    /\ UNCHANGED app

\* a call of analyze_engagement
AnalyzeEngagement ==
    /\ pc = "ready"
    /\ \E behavior_features \in Features :
         LET out == analyze_engagement(models, behavior_features)
         IN /\ op' = "analyze_engagement"
            /\ features' = behavior_features
            /\ passed' = PassedTo(models, "engagement_analysis_rf",
                                  behavior_features, EngagementCols)
            /\ raised' = out.raises
            /\ result' = IF out.raises THEN None ELSE out.value
    /\ learner_result' = None
    /\ engagement_result' = None
    /\ last_learner_type' = NoLabel
    /\ last_engagement_level' = NoLabel
    /\ pc' = "called"
    /\ UNCHANGED <<files, models, idx, attempts>>
    /\ UNCHANGED singleton
    /\ UNCHANGED app

\* the study plans and difficulty adjustments _generate_recommendations holds
AdvancedPlan ==
    [study_plan |-> << "Focus on challenging problems and advanced topics",
                       "Explore multiple solution approaches",
                       "Consider mentoring other students",
                       "Take on complex, multi-step problems" >>,
     difficulty_adjustment |-> "Increase difficulty to maintain engagement"]

ModeratePlan ==
    [study_plan |-> << "Practice with intermediate difficulty problems",
                       "Focus on building confidence with fundamentals",
                       "Gradually increase difficulty level",
                       "Review concepts you find challenging" >>,
     difficulty_adjustment |-> "Maintain current difficulty with gradual increases"]

StrugglingPlan ==
    [study_plan |-> << "Start with basic concepts and fundamentals",
                       "Take your time and don't rush",
                       "Ask for help when needed",
                       "Practice with easier problems to build confidence" >>,
     difficulty_adjustment |-> "Decrease difficulty and provide more support"]

\* the initial values of recommendations["study_plan"] and
\* recommendations["difficulty_adjustment"]
NoPlan == [study_plan |-> <<>>, difficulty_adjustment |-> ""]

\* the motivation tips _generate_recommendations holds
LowTips == << "Set small, achievable goals",
              "Take regular breaks",
              "Find study partners or groups",
              "Reward yourself for progress" >>

HighTips == << "Maintain your excellent momentum!",
               "Challenge yourself with advanced topics",
               "Share your knowledge with others",
               "Set ambitious but realistic goals" >>

ResourceList == << "Interactive practice problems",
                   "Video tutorials",
                   "Peer study groups",
                   "One-on-one tutoring sessions" >>

\* ByLearnerType whose second branch never matches (a misspelt label)
ByLearnerTypeNoModerate(learner_type) ==
    IF learner_type = "advanced" THEN AdvancedPlan
    ELSE IF learner_type = "struggling" THEN StrugglingPlan
    ELSE NoPlan

\* if learner_type == "advanced": ... elif "moderate": ... elif "struggling": ...
ByLearnerType(learner_type) ==
    IF learner_type = "advanced" THEN AdvancedPlan
    ELSE IF learner_type = "moderate" THEN ModeratePlan
    ELSE IF learner_type = "struggling" THEN StrugglingPlan
    ELSE NoPlan

\* MotivationTips with else in place of elif engagement_level == "high"
MotivationTipsElse(engagement_level) ==
    IF engagement_level = "low" THEN LowTips ELSE HighTips

\* if engagement_level == "low": ... elif engagement_level == "high": ...
MotivationTips(engagement_level) ==
    IF engagement_level = "low" THEN LowTips
    ELSE IF engagement_level = "high" THEN HighTips
    ELSE <<>>

\* Resources assigned inside the learner-type branches only
ResourcesForKnown(learner_type, engagement_level, student_data) ==
    IF learner_type \in {"advanced", "moderate", "struggling"}
    THEN ResourceList ELSE <<>>

\* recommendations["resources"] = [...]
Resources(learner_type, engagement_level, student_data) == ResourceList

\* _generate_recommendations
generate_recommendations(learner_type, engagement_level, student_data) ==
    [study_plan            |-> ByLearnerType(learner_type).study_plan,
     resources             |-> Resources(learner_type, engagement_level,
                                         student_data),
     difficulty_adjustment |-> ByLearnerType(learner_type).difficulty_adjustment,
     motivation_tips       |-> MotivationTips(engagement_level)]

\* if "error" in learner_result or "error" in engagement_result
AnyError(l_result, e_result) ==
    "error" \in DOMAIN l_result \/ "error" \in DOMAIN e_result

\* FailedResult that keeps the prediction that did succeed
FailedResultPartial(l_result, e_result) ==
    IF "error" \notin DOMAIN l_result
    THEN [error |-> <<"Failed to generate recommendations">>,
          learner_type |-> l_result.learner_type,
          confidence |-> l_result.confidence]
    ELSE [error |-> <<"Failed to generate recommendations">>]

\* FailedResult that appends the failing prediction's own message
FailedResultWrapping(l_result, e_result) ==
    [error |-> <<"Failed to generate recommendations: ">>
               \o (IF "error" \in DOMAIN l_result THEN l_result.error
                   ELSE e_result.error)]

\* return {"error": "Failed to generate recommendations"}
FailedResult(l_result, e_result) ==
    [error |-> <<"Failed to generate recommendations">>]

\* Recommend with the two labels handed over in the wrong order
RecommendSwapped(l_result, e_result, student_data) ==
    IF AnyError(l_result, e_result)
    THEN FailedResult(l_result, e_result)
    ELSE [learner_type     |-> l_result.learner_type,
          engagement_level |-> e_result.engagement_level,
          recommendations  |->
              generate_recommendations(e_result.engagement_level,
                                       l_result.learner_type, student_data),
          confidence       |-> [learner    |-> l_result.confidence,
                                engagement |-> e_result.confidence]]

\* Recommend with each confidence filed under the other prediction
RecommendConfidenceSwapped(l_result, e_result, student_data) ==
    IF AnyError(l_result, e_result)
    THEN FailedResult(l_result, e_result)
    ELSE [learner_type     |-> l_result.learner_type,
          engagement_level |-> e_result.engagement_level,
          recommendations  |->
              generate_recommendations(l_result.learner_type,
                                       e_result.engagement_level, student_data),
          confidence       |-> [learner    |-> e_result.confidence,
                                engagement |-> l_result.confidence]]

\* get_adaptive_recommendations once both predictions have returned
Recommend(l_result, e_result, student_data) ==
    IF AnyError(l_result, e_result)
    THEN FailedResult(l_result, e_result)
    ELSE [learner_type     |-> l_result.learner_type,
          engagement_level |-> e_result.engagement_level,
          recommendations  |->
              generate_recommendations(l_result.learner_type,
                                       e_result.engagement_level, student_data),
          confidence       |-> [learner    |-> l_result.confidence,
                                engagement |-> e_result.confidence]]

\* get_adaptive_recommendations from the outcomes of its two predictions on;
\* an exception of a prediction method would leave it at the call that raised
Returning(ms, student_data, l_out, e_out) ==
    /\ op' = "get_adaptive_recommendations"
    /\ features' = student_data
    /\ passed' =
         PassedTo(ms, "learner_classification_rf", student_data, LearnerCols)
         \o (IF l_out.raises THEN <<>>
             ELSE PassedTo(ms, "engagement_analysis_rf",
                           student_data, EngagementCols))
    /\ learner_result' = IF l_out.raises THEN None ELSE l_out.value
    /\ engagement_result' =
         IF l_out.raises \/ e_out.raises THEN None ELSE e_out.value
    /\ raised' = (l_out.raises \/ e_out.raises)
    /\ result' = IF l_out.raises \/ e_out.raises THEN None
                 ELSE Recommend(l_out.value, e_out.value, student_data)
    /\ last_learner_type' =
         IF l_out.raises \/ e_out.raises THEN NoLabel
         ELSE IF AnyError(l_out.value, e_out.value) THEN NoLabel
         ELSE l_out.value.learner_type
    /\ last_engagement_level' =
         IF l_out.raises \/ e_out.raises THEN NoLabel
         ELSE IF AnyError(l_out.value, e_out.value) THEN NoLabel
         ELSE e_out.value.engagement_level

\* get_adaptive_recommendations of a manager that counts its calls and
\* answers every second one with a failed learner prediction
get_adaptive_recommendations_counting(ms, student_data) ==
    Returning(ms, student_data,
              IF calls % 2 = 0 THEN predict_learner_type(ms, student_data)
              ELSE Except("Prediction failed: ", "Busy"),
              analyze_engagement(ms, student_data))

\* get_adaptive_recommendations on the registry ms
get_adaptive_recommendations(ms, student_data) ==
    Returning(ms, student_data,
              predict_learner_type(ms, student_data),
              analyze_engagement(ms, student_data))

\* a call of get_adaptive_recommendations
GetAdaptiveRecommendations ==
    /\ pc = "ready"
    /\ \E student_data \in Features :
         get_adaptive_recommendations(models, student_data)
    /\ pc' = "called"
    /\ UNCHANGED <<files, models, idx, attempts>>
    /\ UNCHANGED singleton
    /\ UNCHANGED app

\* get_model_info: the info dict it returns
get_model_info(ms) ==
    [model_name \in DOMAIN ms |->
        [accuracy |-> Get(ms[model_name], "accuracy", "N/A"),
         features |-> Len(Get(ms[model_name], "feature_names", <<>>)),
         classes  |-> Get(ms[model_name], "classes", "N/A")]]

\* models_after_info with the fields taken out of the entries (dict.pop)
models_after_info_pop(ms) ==
    [model_name \in DOMAIN ms |->
        Restrict(ms[model_name], {"pipeline", "feature_names", "classes"})]

\* self.models once get_model_info has run: its loop reads every entry with
\* dict.get and writes to the local info only
models_after_info(ms) == ms

\* a call of get_model_info
GetModelInfo ==
    /\ pc = "ready"
    /\ op' = "get_model_info"
    /\ features' = EmptyDict
    /\ passed' = <<>>
    /\ learner_result' = None
    /\ engagement_result' = None
    /\ result' = get_model_info(models)
    /\ raised' = FALSE
    /\ last_learner_type' = NoLabel
    /\ last_engagement_level' = NoLabel
    /\ models' = models_after_info(models)
    /\ pc' = "called"
    /\ UNCHANGED <<files, idx, attempts>>
    /\ UNCHANGED singleton
    /\ UNCHANGED app

\* The keys show_results reads from ai_analysis, in reading order, and then
\* from ai_analysis['recommendations'].
AnalysisReads == << "learner_type", "learner_confidence",
                    "engagement_level", "engagement_confidence",
                    "recommendations" >>

RecommendationReads == << "study_plan", "difficulty_adjustment",
                          "motivation_tips", "resources", "next_steps" >>

\* d[k] for every k of keys: the first missing key raises KeyError
ReadAll(d, keys) ==
    IF \E j \in DOMAIN keys : keys[j] \notin DOMAIN d
    THEN Raise("KeyError") ELSE Value(d)

\* the display of ai_analysis in show_results, from the learner profile to the
\* study-plan table
display_analysis(ai_analysis) ==
    IF ReadAll(ai_analysis, AnalysisReads).raises THEN Raise("KeyError")
    ELSE ReadAll(ai_analysis.recommendations, RecommendationReads)

\* The try block of show_results: the manager's registry must not be empty,
\* get_adaptive_recommendations is called with the features of the quiz and
\* its result displayed; any exception leads to the fallback message.  The
\* features are any the callers supply, the page's arithmetic is left out.
ShowAnalysis ==
    /\ pc = "ready"
    /\ IF models = EmptyDict
       THEN /\ op' = "show_results"
            /\ features' = EmptyDict
            /\ passed' = <<>>
            /\ learner_result' = None
            /\ engagement_result' = None
            /\ result' = None
            /\ raised' = FALSE
            /\ last_learner_type' = NoLabel
            /\ last_engagement_level' = NoLabel
            /\ analysis' = "unavailable"
       ELSE \E student_features \in Features :
              /\ get_adaptive_recommendations(models, student_features)
              /\ analysis' = IF raised' THEN "unavailable"
                             ELSE IF display_analysis(result').raises
                                  THEN "unavailable"
                                  ELSE "shown"
    /\ pc' = "called"
    /\ UNCHANGED <<files, models, idx, attempts>>
    /\ UNCHANGED singleton
    /\ UNCHANGED <<repeat, session>>

\* The caller is done with what the call returned; the manager waits for the
\* next call.
Discard ==
    /\ pc = "called"
    /\ pc' = "ready"
    /\ op' = "idle"
    /\ features' = EmptyDict
    /\ passed' = <<>>
    /\ learner_result' = None
    /\ engagement_result' = None
    /\ result' = None
    /\ raised' = FALSE
    /\ last_learner_type' = NoLabel
    /\ last_engagement_level' = NoLabel
    /\ analysis' = "none"
    /\ UNCHANGED <<files, models, idx, attempts>>
    /\ UNCHANGED singleton
    /\ UNCHANGED <<repeat, session>>

Next ==
    \/ LoadModelFile
    \/ PredictLearnerType
    \/ PredictPerformance
    \/ AnalyzeEngagement
    \/ GetAdaptiveRecommendations
    \/ GetModelInfo
    \/ ShowAnalysis
    \/ Discard

Spec == Init /\ [][Next]_vars

\* construction alone: AIModelManager.__init__ running load_all_models
NextLoad == LoadModelFile

SpecLoad == Init /\ [][NextLoad]_vars

\* ------------------------------------- get_adaptive_recommendations, repeated

\* Calls of get_adaptive_recommendations one caller makes are followed up to
\* MaxRepeat.
MaxRepeat == 3

\* A caller calls get_adaptive_recommendations again and keeps what its first
\* call was given.
RepeatRecommendations ==
    /\ pc = "ready"
    /\ calls < MaxRepeat
    /\ \E student_data \in Features :
          /\ get_adaptive_recommendations(models, student_data)
          /\ first' = IF first = None
                      THEN [features |-> student_data,
                            result   |-> result',
                            raised   |-> raised']
                      ELSE first
          /\ intervening' =
                IF first = None THEN FALSE
                ELSE intervening \/ (student_data # first.features)
    /\ calls' = calls + 1
    /\ pc' = "called"
    /\ UNCHANGED <<files, models, idx, attempts>>
    /\ UNCHANGED singleton
    /\ UNCHANGED <<analysis, session>>

NextRepeat ==
    \/ LoadModelFile
    \/ RepeatRecommendations
    \/ GetModelInfo
    \/ Discard

\* -------------------------------------------------- _generate_recommendations

\* Labels _generate_recommendations may be handed: the classes the trainer's
\* classifiers know and, from any other artifact, a class they do not.
LearnerLabels == {"advanced", "moderate", "struggling", "expert"}
EngagementLabels == {"low", "medium", "high", "very_high"}

\* a call of _generate_recommendations on its own
GenerateRecommendations ==
    /\ pc = "ready"
    /\ \E lt \in LearnerLabels, el \in EngagementLabels, student_data \in Features :
          /\ last_learner_type' = lt
          /\ last_engagement_level' = el
          /\ features' = student_data
          /\ result' = generate_recommendations(lt, el, student_data)
    /\ op' = "_generate_recommendations"
    /\ passed' = <<>>
    /\ learner_result' = None
    /\ engagement_result' = None
    /\ raised' = FALSE
    /\ pc' = "called"
    /\ UNCHANGED <<files, models, idx, attempts>>
    /\ UNCHANGED singleton
    /\ UNCHANGED app

NextMapping ==
    \/ LoadModelFile
    \/ GenerateRecommendations
    \/ Discard

\* -------------------------------------------------------- get_model_manager

\* the variables of one AIModelManager object and of its callers
manager == <<files, models, pc, idx, attempts, op, features, passed,
             learner_result, engagement_result, result, raised,
             last_learner_type, last_engagement_level>>

\* load_all_models from its first file on: the registry it leaves
RECURSIVE LoadFrom(_, _, _)
LoadFrom(ms, fs, i) ==
    IF i > Len(model_files) THEN ms
    ELSE LoadFrom(LoadFile(ms, fs[model_files[i]], ModelName(model_files[i])).models,
                  fs, i + 1)

\* AIModelManager(): self.models = {} and load_all_models()
NewManager(fs) == LoadFrom(EmptyDict, fs, 1)

\* IsUninitialised without the test: every call constructs
AlwaysUninitialised(mm) == TRUE

\* if model_manager is None
IsUninitialised(mm) == mm = None

\* Thread t calls get_model_manager and reads the global for the test.
Call(t) ==
    /\ tpc[t] = "idle"
    /\ ncalls < MaxCalls
    /\ ncalls' = ncalls + 1
    /\ tpc' = [tpc EXCEPT ![t] = IF IsUninitialised(model_manager)
                                 THEN "construct" ELSE "return"]
    /\ UNCHANGED <<model_manager, instances, inst, returned>>
    /\ UNCHANGED manager
    /\ UNCHANGED app

\* Call(t) in a process whose calls of get_model_manager do not overlap
CallAlone(t) ==
    /\ \A u \in Threads : tpc[u] = "idle"
    /\ Call(t)

\* AIModelManager() is evaluated: a new object, its models loaded
Construct(t) ==
    /\ tpc[t] = "construct"
    /\ instances' = Append(instances, NewManager(files))
    /\ inst' = [inst EXCEPT ![t] = [id |-> Len(instances) + 1]]
    /\ tpc' = [tpc EXCEPT ![t] = "store"]
    /\ UNCHANGED <<model_manager, returned, ncalls>>
    /\ UNCHANGED manager
    /\ UNCHANGED app

\* model_manager = <the new object>
Store(t) ==
    /\ tpc[t] = "store"
    /\ model_manager' = inst[t]
    /\ inst' = [inst EXCEPT ![t] = None]
    /\ tpc' = [tpc EXCEPT ![t] = "return"]
    /\ UNCHANGED <<instances, returned, ncalls>>
    /\ UNCHANGED manager
    /\ UNCHANGED app

\* return model_manager
Return(t) ==
    /\ tpc[t] = "return"
    /\ returned' = returned \cup {model_manager}
    /\ tpc' = [tpc EXCEPT ![t] = "idle"]
    /\ UNCHANGED <<model_manager, instances, inst, ncalls>>
    /\ UNCHANGED manager
    /\ UNCHANGED app

\* the files of a process that reaches the registry through get_model_manager
ProcessFiles(model_name) ==
    { Missing,
      [exists |-> TRUE, first |-> Value(Dict(Trained(model_name))),
                        second |-> Value(Dict(Trained(model_name)))],
      [exists |-> TRUE, first |-> Raise("UnpicklingError"),
                        second |-> Raise("UnpicklingError")],
      [exists |-> TRUE, first |-> Raise("UnicodeDecodeError"),
                        second |-> Value(Dict(Restrict(Trained(model_name),
                                       {"pipeline", "accuracy", "cv_std"})))] }

\* the module is imported: model_manager = None, nothing constructed
InitProcess ==
    /\ Init
    /\ \A i \in DOMAIN model_files :
           files[model_files[i]] \in ProcessFiles(ModelName(model_files[i]))

\* calls of get_model_manager one after the other
NextSequential ==
    \E t \in Threads : CallAlone(t) \/ Construct(t) \/ Store(t) \/ Return(t)

SpecSequential == InitProcess /\ [][NextSequential]_vars

\* calls of get_model_manager from threads that run concurrently
NextConcurrent ==
    \E t \in Threads : Call(t) \/ Construct(t) \/ Store(t) \/ Return(t)

SpecConcurrent == InitProcess /\ [][NextConcurrent]_vars

\* predict_learner_type called with features of any type
NextValues ==
    \/ LoadModelFile
    \/ PredictLearnerTypeAnyValues
    \/ Discard

SpecValues == InitProcess /\ [][NextValues]_vars

\* a caller that repeats get_adaptive_recommendations on one manager
SpecRepeat == InitProcess /\ [][NextRepeat]_vars

\* an AIModelManager whose _generate_recommendations is called on its own
SpecMapping == InitProcess /\ [][NextMapping]_vars

\* ------------------------------------------------- the Streamlit application

\* Every interaction of the browser session runs the script once: the session
\* state is initialised if absent and main() is called.  st.rerun() ends the
\* run and makes another one due.

\* Questions of the bank that the model keeps.
NumQuestions == 2
\* Quiz attempts of one session that are followed.
MaxAttempts == 2

\* math_questions; arrows and arithmetic signs of the explanations are
\* written in ASCII
QuestionBank ==
    << [question    |-> "What is 15 + 27?",
        options     |-> << "40", "42", "41", "43" >>,
        correct     |-> 1,
        explanation |-> "15 + 27 = 42"],
       [question    |-> "If 3x + 5 = 20, what is x?",
        options     |-> << "3", "5", "7", "15" >>,
        correct     |-> 1,
        explanation |-> "3x + 5 = 20 -> 3x = 15 -> x = 5"],
       [question    |-> "What is the area of a rectangle with length 8 and width 6?",
        options     |-> << "14", "48", "28", "56" >>,
        correct     |-> 1,
        explanation |-> "Area = length x width = 8 x 6 = 48"],
       [question    |-> "What is 7^2 x 3?",
        options     |-> << "147", "21", "49", "343" >>,
        correct     |-> 0,
        explanation |-> "7^2 = 49, so 49 x 3 = 147"],
       [question    |-> "If a train travels 120 km in 2 hours, what is its speed?",
        options     |-> << "60 km/h", "120 km/h", "240 km/h", "30 km/h" >>,
        correct     |-> 0,
        explanation |-> "Speed = distance / time = 120 / 2 = 60 km/h"] >>

math_questions == SubSeq(QuestionBank, 1, NumQuestions)

\* a radio widget with nothing selected (index=None)
NoAnswer == "<unanswered>"

\* np.random.choice(n, size=n, replace=False): an order of the questions.  Of
\* the n! orders the bank's own and its reverse are followed.
Orders(n) == { [i \in 1..n |-> i], [i \in 1..n |-> (n + 1) - i] }

\* generate_quiz: the quizzes it may return
generate_quiz ==
    { [i \in 1..Len(math_questions) |-> math_questions[order[i]]]
        : order \in Orders(Len(math_questions)) }

\* question['options'][question['correct']]
CorrectAnswer(question) == question.options[question.correct + 1]

\* The options a student is followed selecting: the correct one and the one
\* listed after it.
Picks(question) ==
    { CorrectAnswer(question),
      question.options[((question.correct + 1) % Len(question.options)) + 1] }

\* datetime.datetime.now(), as the date and the time of day it is formatted to
Times == { [date |-> "2025-03-01", time |-> "09:00"] }

\* what the registration form may hold when it is submitted
Names == {"", "Asha"}
Emails == {"", "asha@example.org"}
Grades == {"7th"}
Subjects == {"Science"}

\* all(answer is not None for answer in answers)
AllAnswered(ans) == \A i \in DOMAIN ans : ans[i] # NoAnswer

\* Submitted of a quiz page whose button is never disabled and whose handler
\* does not look at all_answered
SubmittedUnchecked(clicked, all_answered) == clicked

\* st.button("Submit Quiz", disabled=not all_answered) returns True and the
\* handler gets past "if not all_answered: return"
Submitted(clicked, all_answered) == clicked /\ all_answered

\* results, the list show_quiz builds from the quiz and the answers
Results(quiz, ans) ==
    [i \in 1..Len(quiz) |->
        [question       |-> quiz[i].question,
         user_answer    |-> ans[i],
         correct_answer |-> CorrectAnswer(quiz[i]),
         is_correct     |-> (ans[i] = CorrectAnswer(quiz[i])),
         explanation    |-> quiz[i].explanation]]

\* sum(1 for r in results if r['is_correct'])
CorrectAnswers(results) ==
    Cardinality({i \in DOMAIN results : results[i].is_correct})

\* quiz_attempt; accuracy in hundredths, score as the pair the f-string joins
QuizAttempt(results, now, history, info) ==
    [timestamp       |-> <<now.date, now.time>>,
     date            |-> now.date,
     total_questions |-> Len(results),
     correct_answers |-> CorrectAnswers(results),
     accuracy        |-> IF Len(results) > 0
                         THEN (100 * CorrectAnswers(results)) \div Len(results)
                         ELSE 0,
     score           |-> <<CorrectAnswers(results), Len(results)>>,
     results         |-> results,
     subject         |-> Get(info, "subject", "Mathematics"),
     attempt_number  |-> Len(history) + 1]

\* st.rerun(): the run ends here and the script is due again
Rerun == screen' = "pending"

\* the manager, the singleton's bookkeeping of callers and what the other
\* callers of this module keep
outside == <<manager, tpc, inst, returned, ncalls, repeat, analysis>>

\* show_quiz, with the values the radio widgets hold (none when they were not
\* on screen) and whether the run was started by the Submit Quiz button
show_quiz(widgets, clicked) ==
    IF ~user_registered
    THEN /\ current_page' = "home"
         /\ Rerun
         /\ UNCHANGED <<quiz_results, quiz_history, current_quiz, answers>>
    ELSE \E quiz \in (IF current_quiz = NoQuiz THEN generate_quiz
                      ELSE {current_quiz}), now \in Times :
           LET ans == IF Len(widgets) = Len(quiz) THEN widgets
                      ELSE [i \in 1..Len(quiz) |-> NoAnswer]
               results == Results(quiz, ans)
           IN IF Submitted(clicked, AllAnswered(ans))
              THEN /\ quiz_history' =
                        Append(quiz_history,
                               QuizAttempt(results, now, quiz_history, user_info))
                   /\ quiz_results' = results
                   /\ current_quiz' = NoQuiz
                   /\ current_page' = "results"
                   /\ answers' = ans
                   /\ Rerun
              ELSE /\ current_quiz' = quiz
                   /\ answers' = ans
                   /\ screen' = "quiz"
                   /\ UNCHANGED <<quiz_results, quiz_history, current_page>>

\* show_results up to model_manager = get_model_manager(); what it draws
\* changes nothing
show_results ==
    /\ IF quiz_results # <<>> /\ IsUninitialised(model_manager)
       THEN /\ instances' = Append(instances, NewManager(files))
            /\ model_manager' = [id |-> Len(instances) + 1]
       ELSE UNCHANGED <<instances, model_manager>>
    /\ screen' = "results"

\* A run of the script that no widget started: main() routes to the page.  A
\* run drops the state of the widgets it did not draw.
Run ==
    /\ screen = "pending"
    /\ event' = "run"
    /\ CASE current_page = "quiz" ->
              /\ show_quiz(answers, FALSE)
              /\ UNCHANGED <<instances, model_manager>>
         [] current_page = "results" ->
              /\ show_results
              /\ answers' = <<>>
              /\ UNCHANGED <<quiz_results, quiz_history, current_quiz,
                             current_page>>
         [] current_page \in {"home", "history"} ->
              /\ screen' = current_page
              /\ answers' = <<>>
              /\ UNCHANGED <<quiz_results, quiz_history, current_quiz,
                             current_page, instances, model_manager>>
         [] OTHER ->
              /\ current_page' = "home"
              /\ screen' = "home"
              /\ answers' = <<>>
              /\ UNCHANGED <<quiz_results, quiz_history, current_quiz,
                             instances, model_manager>>
    /\ UNCHANGED <<user_registered, user_info>>
    /\ UNCHANGED outside

\* A button that sets current_page and calls st.rerun().  The run ends before
\* the quiz page's radio widgets are drawn, which drops their state.
GoTo(button, page) ==
    /\ event' = button
    /\ current_page' = page
    /\ answers' = <<>>
    /\ Rerun
    /\ UNCHANGED <<user_registered, user_info, quiz_results, quiz_history,
                   current_quiz, instances, model_manager>>
    /\ UNCHANGED outside

\* the four buttons main() draws above every page
ClickHome ==
    /\ screen # "pending"
    /\ GoTo("Home", "home")

ClickTakeQuiz ==
    /\ screen # "pending"
    /\ user_registered
    /\ GoTo("Take Quiz", "quiz")

ClickResults ==
    /\ screen # "pending"
    /\ user_registered /\ quiz_results # <<>>
    /\ GoTo("Results", "results")

ClickHistory ==
    /\ screen # "pending"
    /\ user_registered /\ quiz_history # <<>>
    /\ GoTo("History", "history")

\* show_home: the registration form is submitted
SubmitRegistration ==
    /\ screen = "home"
    /\ ~user_registered
    /\ event' = "Start Learning Journey"
    /\ \E name \in Names, email \in Emails, grade \in Grades, subject \in Subjects :
         IF name # "" /\ email # ""
         THEN /\ user_registered' = TRUE
              /\ user_info' = [name |-> name, email |-> email,
                               grade |-> grade, subject |-> subject]
              /\ Rerun
         ELSE UNCHANGED <<user_registered, user_info, screen>>
    /\ UNCHANGED <<quiz_results, quiz_history, current_quiz, current_page,
                   answers, instances, model_manager>>
    /\ UNCHANGED outside

\* show_home: Start Assessment, drawn for a registered student without results
ClickStartAssessment ==
    /\ screen = "home"
    /\ user_registered /\ quiz_results = <<>>
    /\ GoTo("Start Assessment", "quiz")

\* show_quiz: the student selects an option of one question
SelectAnswer ==
    /\ screen = "quiz"
    /\ event' = "select"
    /\ \E i \in DOMAIN answers :
         \E option \in Picks(current_quiz[i]) :
            show_quiz([answers EXCEPT ![i] = option], FALSE)
    /\ UNCHANGED <<user_registered, user_info, instances, model_manager>>
    /\ UNCHANGED outside

\* show_quiz: the student goes for the Submit Quiz button
SubmitQuiz ==
    /\ screen = "quiz"
    /\ Len(quiz_history) < MaxAttempts
    /\ event' = "Submit Quiz"
    /\ show_quiz(answers, TRUE)
    /\ UNCHANGED <<user_registered, user_info, instances, model_manager>>
    /\ UNCHANGED outside

\* ClickTakeAnotherQuiz that also empties the history
ClickTakeAnotherQuizClearingHistory ==
    /\ screen = "results"
    /\ quiz_results # <<>>
    /\ event' = "Take Another Quiz"
    /\ current_quiz' = NoQuiz
    /\ quiz_results' = <<>>
    /\ quiz_history' = <<>>
    /\ current_page' = "quiz"
    /\ Rerun
    /\ UNCHANGED <<user_registered, user_info, answers, instances, model_manager>>
    /\ UNCHANGED outside

\* ClickTakeAnotherQuiz that starts over as a new student
ClickTakeAnotherQuizAsNewStudent ==
    /\ screen = "results"
    /\ quiz_results # <<>>
    /\ event' = "Take Another Quiz"
    /\ current_quiz' = NoQuiz
    /\ quiz_results' = <<>>
    /\ user_registered' = FALSE
    /\ user_info' = EmptyDict
    /\ current_page' = "quiz"
    /\ Rerun
    /\ UNCHANGED <<quiz_history, answers, instances, model_manager>>
    /\ UNCHANGED outside

\* show_results: Take Another Quiz, drawn below the results
ClickTakeAnotherQuiz ==
    /\ screen = "results"
    /\ quiz_results # <<>>
    /\ event' = "Take Another Quiz"
    /\ current_quiz' = NoQuiz
    /\ quiz_results' = <<>>
    /\ current_page' = "quiz"
    /\ Rerun
    /\ UNCHANGED <<user_registered, user_info, quiz_history, answers,
                   instances, model_manager>>
    /\ UNCHANGED outside

\* show_results: Back to Home
ClickBackToHome ==
    /\ screen = "results"
    /\ quiz_results # <<>>
    /\ GoTo("Back to Home", "home")

\* a session of a deployment whose artifacts are the trainer's
InitSession ==
    /\ Init
    /\ \A i \in DOMAIN model_files :
         files[model_files[i]] =
            [exists |-> TRUE,
             first  |-> Value(Dict(Trained(ModelName(model_files[i])))),
             second |-> Value(Dict(Trained(ModelName(model_files[i]))))]

NextSession ==
    \/ Run
    \/ ClickHome
    \/ ClickTakeQuiz
    \/ ClickResults
    \/ ClickHistory
    \/ SubmitRegistration
    \/ ClickStartAssessment
    \/ SelectAnswer
    \/ SubmitQuiz
    \/ ClickTakeAnotherQuiz
    \/ ClickBackToHome

SpecSession == InitSession /\ [][NextSession]_vars

\* ------------------------------------------------------------- properties

Recommending == pc = "called" /\ op = "get_adaptive_recommendations"

IsError(r) == "error" \in DOMAIN r

\* what reading the file yields in the end: the first attempt's outcome, or
\* the fallback's when the first raised
Deserialized(file) == IF file.first.raises THEN file.second ELSE file.first

\* the file holds a dict with a 'pipeline' key
WellFormed(file) ==
    /\ file.exists
    /\ ~Deserialized(file).raises
    /\ Deserialized(file).value.isdict
    /\ "pipeline" \in DOMAIN Deserialized(file).value.d

\* the loop of load_all_models is past model_files[i]
Processed(i) == i < idx /\ pc # "aborted"

\* C1: every DataFrame handed to a model's pipeline has as its columns the
\* feature_names stored in that model's registry entry, in that order.
C1_ColumnsAreArtifactFeatureNames ==
    \A i \in DOMAIN passed :
        passed[i].X.columns = models[passed[i].model].feature_names

\* C2: the row handed to a pipeline has one entry per name of the schema S it
\* was built for; entry j is features[S[j]] when S[j] is a key of the features
\* and 0 otherwise, so keys outside S do not show in it.
C2_RowFollowsSchema ==
    \A i \in DOMAIN passed :
        LET S == passed[i].X.columns
            row == passed[i].X.row
        IN /\ S \in {LearnerCols, PerformanceCols, EngagementCols}
           /\ Len(row) = Len(S)
           /\ \A j \in 1..Len(S) :
                  row[j] = IF S[j] \in DOMAIN features THEN features[S[j]] ELSE 0

\* C2 witness: predict_performance built a row from features with one key of
\* its schema and one key outside it.
C2_Witness ==
    /\ pc = "called" /\ op = "predict_performance"
    /\ features = ("attempts" :> 2 @@ "learning_progress" :> 1)
    /\ Len(passed) = 1
    /\ passed[1].X.row = <<2, 0, 0, 0>>

\* C3: with the learner-classification model or the engagement-analysis model
\* absent from the registry, get_adaptive_recommendations returns an error
\* record, whatever else is loaded and whatever the features are.
C3_AbsentModelGivesError ==
    (Recommending /\ ( "learner_classification_rf" \notin DOMAIN models
                       \/ "engagement_analysis_rf" \notin DOMAIN models ))
        => (~raised /\ IsError(result))

\* C3 witness: only the engagement model is absent, and the call failed.
C3_Witness ==
    /\ Recommending
    /\ DOMAIN models = {"learner_classification_rf", "performance_prediction_gb"}
    /\ models["learner_classification_rf"].pipeline.fit = "fitted"
    /\ features # EmptyDict
    /\ IsError(result)

\* C4: when either prediction returned an error, the result of
\* get_adaptive_recommendations has the key 'error' and no other key.
C4_NoPartialRecommendation ==
    (Recommending /\ ~raised /\ (IsError(learner_result) \/ IsError(engagement_result)))
        => DOMAIN result = {"error"}

\* C4 witness: the learner prediction succeeded, the engagement pipeline
\* raised, and the result holds the error alone.
C4_Witness ==
    /\ Recommending
    /\ "learner_type" \in DOMAIN learner_result
    /\ IsError(engagement_result)
    /\ "engagement_analysis_rf" \in DOMAIN models
    /\ DOMAIN result = {"error"}

\* C5: every call of get_adaptive_recommendations returns, without an
\* exception leaving it, either an error record or a complete success record.
C5_AlwaysReturnsARecord ==
    Recommending =>
        /\ ~raised
        /\ \/ DOMAIN result = {"error"}
           \/ DOMAIN result = {"learner_type", "engagement_level",
                               "recommendations", "confidence"}

\* C5 witness: both models are loaded, the engagement pipeline raises in
\* predict_proba after predict succeeded, and the call returned an error.
C5_Witness ==
    /\ Recommending
    /\ "learner_classification_rf" \in DOMAIN models
    /\ "engagement_analysis_rf" \in DOMAIN models
    /\ models["engagement_analysis_rf"].pipeline.fit = "no_proba"
    /\ ~raised
    /\ IsError(result)

\* message m occurs in message e, part by part
Carries(e, m) == \A k \in DOMAIN m : \E j \in DOMAIN e : e[j] = m[k]

\* C6 as stated: a failed get_adaptive_recommendations returns an error that
\* carries the message of a prediction that failed.
C6_ErrorCarriesCause ==
    (Recommending /\ ~raised /\ IsError(result)) =>
        \/ IsError(learner_result) /\ Carries(result.error, learner_result.error)
        \/ IsError(engagement_result) /\ Carries(result.error, engagement_result.error)

\* C6 amended: a failed get_adaptive_recommendations returns the one fixed
\* message "Failed to generate recommendations", the same whichever
\* prediction failed and whatever its cause.
C6_ErrorIsFixedMessage ==
    (Recommending /\ ~raised
       /\ (IsError(learner_result) \/ IsError(engagement_result)))
        => result.error = <<"Failed to generate recommendations">>

\* C6 witness: the learner prediction failed in the pipeline, with its own
\* message, and the call returned the fixed message.
C6_Witness ==
    /\ Recommending
    /\ IsError(learner_result)
    /\ learner_result.error = <<"Prediction failed: ", "NotFittedError">>
    /\ result.error = <<"Failed to generate recommendations">>

\* C7: load_all_models never aborts; its registry holds only the three model
\* names; and once it is past a file, the file's name is registered exactly
\* when the file is there and deserializes to a dict with a pipeline,
\* whatever the other files are.
C7_FilesLoadIndependently ==
    /\ pc # "aborted"
    /\ pc = "loading" => (~raised /\ idx \in DOMAIN model_files)
    /\ DOMAIN models \subseteq ModelNames
    /\ \A i \in DOMAIN model_files :
           i < idx =>
               ( ModelName(model_files[i]) \in DOMAIN models
                   <=> WellFormed(files[model_files[i]]) )

\* C7 witness: loading finished with the first file corrupt, the second of an
\* invalid format and the third valid, and only the third is registered.
C7_Witness ==
    /\ pc = "ready" /\ op = "__init__"
    /\ files["learner_classification_rf.pkl"].exists
    /\ files["learner_classification_rf.pkl"].first.raises
    /\ files["learner_classification_rf.pkl"].second.raises
    /\ files["performance_prediction_gb.pkl"].exists
    /\ ~files["performance_prediction_gb.pkl"].first.raises
    /\ ~files["performance_prediction_gb.pkl"].first.value.isdict
    /\ WellFormed(files["engagement_analysis_rf.pkl"])
    /\ DOMAIN models = {"engagement_analysis_rf"}

\* C8: a registered name has a file on disk whose deserialized object is a
\* dict with 'pipeline', and its entry holds that pipeline; a processed file
\* that is missing, or whose object has no 'pipeline', leaves its name absent.
C8_RegisteredOnlyWithPipeline ==
    \A i \in DOMAIN model_files :
        LET file == files[model_files[i]]
            name == ModelName(model_files[i])
        IN /\ name \in DOMAIN models =>
                 /\ file.exists
                 /\ ~Deserialized(file).raises
                 /\ Deserialized(file).value.isdict
                 /\ "pipeline" \in DOMAIN Deserialized(file).value.d
                 /\ "pipeline" \in DOMAIN models[name]
                 /\ models[name].pipeline = Deserialized(file).value.d["pipeline"]
           /\ (Processed(i) /\ ~file.exists) => name \notin DOMAIN models
           /\ ( Processed(i) /\ file.exists /\ ~Deserialized(file).raises
                /\ Deserialized(file).value.isdict
                /\ "pipeline" \notin DOMAIN Deserialized(file).value.d )
                  => name \notin DOMAIN models

\* C8 witness: loading finished; one file held a dict without 'pipeline' and
\* is absent, one was missing and is absent, one is registered.
C8_Witness ==
    /\ pc = "ready" /\ op = "__init__"
    /\ files["learner_classification_rf.pkl"].exists
    /\ ~files["learner_classification_rf.pkl"].first.raises
    /\ files["learner_classification_rf.pkl"].first.value.isdict
    /\ "pipeline" \notin DOMAIN files["learner_classification_rf.pkl"].first.value.d
    /\ ~files["performance_prediction_gb.pkl"].exists
    /\ DOMAIN models = {"engagement_analysis_rf"}

\* C9: for a processed file, pickle.load was called at most twice: never when
\* the file is missing, once when the first call returned, twice exactly when
\* the first call raised; and when both calls raised the name is absent and
\* the loop went on.
C9_AtMostTwoAttempts ==
    \A i \in DOMAIN model_files :
        LET file == files[model_files[i]]
            n == attempts[model_files[i]]
        IN /\ n <= 2
           /\ ~Processed(i) => n = 0
           /\ Processed(i) =>
                 /\ (n = 0 <=> ~file.exists)
                 /\ (n = 2 <=> (file.exists /\ file.first.raises))
                 /\ (file.exists /\ file.first.raises /\ file.second.raises)
                      => /\ ModelName(model_files[i]) \notin DOMAIN models
                         /\ idx > i

\* C9 witness: the first file failed both attempts, and the loop went on to
\* load the second file in one attempt.
C9_Witness ==
    /\ idx = 3 /\ pc = "loading"
    /\ files["learner_classification_rf.pkl"].exists
    /\ files["learner_classification_rf.pkl"].first.raises
    /\ files["learner_classification_rf.pkl"].second.raises
    /\ attempts["learner_classification_rf.pkl"] = 2
    /\ attempts["performance_prediction_gb.pkl"] = 1
    /\ DOMAIN models = {"performance_prediction_gb"}

\* C10: the entry registered for a well-formed file holds the record's
\* feature_names, classes and accuracy where the record has them, and an
\* empty list, an empty list and 0 where it does not, on either load path.
C10_MetadataRoundTrip ==
    \A i \in DOMAIN model_files :
        (Processed(i) /\ WellFormed(files[model_files[i]])) =>
            LET d == Deserialized(files[model_files[i]]).value.d
                name == ModelName(model_files[i])
            IN /\ name \in DOMAIN models
               /\ models[name].feature_names =
                      IF "feature_names" \in DOMAIN d THEN d["feature_names"] ELSE <<>>
               /\ models[name].classes =
                      IF "classes" \in DOMAIN d THEN d["classes"] ELSE <<>>
               /\ models[name].accuracy =
                      IF "accuracy" \in DOMAIN d THEN d["accuracy"] ELSE 0

\* C10 witness: one artifact came in on the fallback path without
\* feature_names and classes, another on the normal path with all three.
C10_Witness ==
    /\ pc = "ready" /\ op = "__init__"
    /\ files["learner_classification_rf.pkl"].exists
    /\ files["learner_classification_rf.pkl"].first.raises
    /\ "learner_classification_rf" \in DOMAIN models
    /\ models["learner_classification_rf"].feature_names = <<>>
    /\ models["learner_classification_rf"].classes = <<>>
    /\ models["learner_classification_rf"].accuracy = 87
    /\ "engagement_analysis_rf" \in DOMAIN models
    /\ ~files["engagement_analysis_rf.pkl"].first.raises
    /\ models["engagement_analysis_rf"].feature_names = EngagementCols
    /\ models["engagement_analysis_rf"].classes = <<"low", "medium", "high">>

\* C11: when the calls of get_model_manager follow one another, at most one
\* AIModelManager is ever constructed (and so load_all_models run once), it
\* is constructed by the first call, and every call returns that one object.
C11_ConstructedOnce ==
    /\ Len(instances) <= 1
    /\ ncalls >= 1 /\ (\A t \in Threads : tpc[t] \in {"idle", "return"})
         => (Len(instances) = 1 /\ model_manager = [id |-> 1])
    /\ returned \subseteq {[id |-> 1]}

\* C11 witness: all the calls followed were made, one object was constructed
\* and it is the one returned.
C11_Witness ==
    /\ ncalls = MaxCalls
    /\ \A t \in Threads : tpc[t] = "idle"
    /\ Len(instances) = 1
    /\ returned = {[id |-> 1]}
    /\ DOMAIN instances[1] = ModelNames

\* C12: when threads call get_model_manager concurrently, at most one
\* AIModelManager is ever constructed and all calls return the same object.
C12_ConstructedOnceConcurrently ==
    /\ Len(instances) <= 1
    /\ Cardinality(returned) <= 1

\* C13: once load_all_models is over, no step changes self.models: the calls of
\* predict_learner_type, predict_performance, analyze_engagement,
\* get_adaptive_recommendations and get_model_info, failing or not, leave the
\* key set and every entry as they were.
C13_CallsLeaveRegistry ==
    [][(pc \in {"ready", "called"}) => (models' = models)]_vars

\* C13 witness: get_model_info has reported on a registry that holds all
\* three models.
C13_Witness ==
    /\ pc = "called" /\ op = "get_model_info"
    /\ DOMAIN models = ModelNames
    /\ DOMAIN result = ModelNames
    /\ result["learner_classification_rf"].features = Len(LearnerCols)
    /\ models["learner_classification_rf"].accuracy = 87

\* the result of a single prediction that succeeded, with the key of its label
Predicted(method, key) ==
    /\ pc = "called" /\ op = method
    /\ ~raised
    /\ key \in DOMAIN result

\* the distribution the pipeline of model_name gives for the DataFrame passed
DistributionSeen(model_name) ==
    PredictProba(models[model_name].pipeline, passed[1].X).value

\* confidence is the largest entry of dist, and label is a class of the
\* pipeline whose entry is that largest one
TopOf(model_name, label, confidence) ==
    LET dist == DistributionSeen(model_name)
        classes == models[model_name].pipeline.labels
    IN /\ \A i \in DOMAIN dist : dist[i] <= confidence
       /\ \E i \in DOMAIN dist : dist[i] = confidence /\ classes[i] = label

\* C14: a successful predict_learner_type or analyze_engagement returns as
\* confidence the maximum of the pipeline's class probabilities for the input
\* and as label a class that has that probability.
C14_ConfidenceIsMaxProbability ==
    /\ Predicted("predict_learner_type", "learner_type") =>
           TopOf("learner_classification_rf", result.learner_type, result.confidence)
    /\ Predicted("analyze_engagement", "engagement_level") =>
           TopOf("engagement_analysis_rf", result.engagement_level, result.confidence)

\* C14 witness: the learner prediction came out 'moderate' with the maximum
\* 76 of a distribution whose first entry is smaller.
C14_Witness ==
    /\ Predicted("predict_learner_type", "learner_type")
    /\ result.learner_type = "moderate"
    /\ DistributionSeen("learner_classification_rf") = <<10, 76, 14>>
    /\ result.confidence = 76

\* the exception the pipeline of model_name raises on the DataFrame passed
PipelineFailure(model_name) ==
    LET p == models[model_name].pipeline
    IN IF Predict(p, passed[1].X).raises THEN Predict(p, passed[1].X).exc
       ELSE PredictProba(p, passed[1].X).exc

\* r is an error record naming the pipeline's exception or the missing model,
\* or a record with both the label and a confidence
WholePrediction(r, model_name, label_key, prefix, not_loaded) ==
    IF "error" \in DOMAIN r
    THEN /\ DOMAIN r = {"error"}
         /\ IF model_name \in DOMAIN models
            THEN r.error = <<prefix, PipelineFailure(model_name)>>
            ELSE r.error = <<not_loaded>>
    ELSE {label_key, "confidence"} \subseteq DOMAIN r

\* C15: predict_learner_type and analyze_engagement return either an error
\* record, which names the cause and holds neither label nor confidence, or a
\* record with both a label and a confidence, whichever pipeline call fails.
C15_NoPartialPrediction ==
    /\ (pc = "called" /\ op = "predict_learner_type") =>
           /\ ~raised
           /\ WholePrediction(result, "learner_classification_rf", "learner_type",
                              "Prediction failed: ",
                              "Learner classification model not loaded")
    /\ (pc = "called" /\ op = "analyze_engagement") =>
           /\ ~raised
           /\ WholePrediction(result, "engagement_analysis_rf", "engagement_level",
                              "Engagement analysis failed: ",
                              "Engagement analysis model not loaded")

\* C15 witness: predict succeeded and predict_proba raised in
\* predict_learner_type, which returned the error alone.
C15_Witness ==
    /\ pc = "called" /\ op = "predict_learner_type"
    /\ "learner_classification_rf" \in DOMAIN models
    /\ models["learner_classification_rf"].pipeline.fit = "no_proba"
    /\ ~Predict(models["learner_classification_rf"].pipeline, passed[1].X).raises
    /\ result = [error |-> <<"Prediction failed: ", "AttributeError">>]


\* a successful get_adaptive_recommendations has returned
Recommended == Recommending /\ ~raised /\ ~IsError(result)

\* C16: when neither prediction carries an error, the result reports the two
\* predicted labels, files each prediction's confidence under its own name and
\* holds the bundle _generate_recommendations builds from those two labels.
C16_SuccessPassesThrough ==
    Recommended =>
        /\ result.learner_type = learner_result.learner_type
        /\ result.engagement_level = engagement_result.engagement_level
        /\ result.confidence.learner = learner_result.confidence
        /\ result.confidence.engagement = engagement_result.confidence
        /\ result.recommendations =
               generate_recommendations(learner_result.learner_type,
                                        engagement_result.engagement_level,
                                        features)

\* a success whose two confidences differ
C16_Witness ==
    /\ Recommended
    /\ learner_result.confidence # engagement_result.confidence
    /\ result.confidence.learner = learner_result.confidence

\* _generate_recommendations has returned
Generated == pc = "called" /\ op = "_generate_recommendations"

KnownLearnerTypes == {"advanced", "moderate", "struggling"}
KnownEngagementLevels == {"low", "medium", "high"}

\* C17: for each of the nine pairs of a known learner type and a known
\* engagement level the bundle has a non-empty study plan and a non-empty
\* difficulty adjustment, and both are the ones of the learner type whatever
\* the engagement level and the student data.
C17_PlanByLearnerTypeAlone ==
    (Generated /\ last_learner_type \in KnownLearnerTypes
               /\ last_engagement_level \in KnownEngagementLevels) =>
        /\ result.study_plan # <<>>
        /\ result.difficulty_adjustment # ""
        /\ \A el \in EngagementLabels, student_data \in Features :
             LET other == generate_recommendations(last_learner_type, el,
                                                   student_data)
             IN /\ other.study_plan = result.study_plan
                /\ other.difficulty_adjustment = result.difficulty_adjustment
        /\ \A lt \in KnownLearnerTypes \ {last_learner_type} :
             LET other == generate_recommendations(lt, last_engagement_level,
                                                   features)
             IN /\ other.study_plan # result.study_plan
                /\ other.difficulty_adjustment # result.difficulty_adjustment

\* the pair (moderate, medium) has its plan
C17_Witness ==
    /\ Generated
    /\ last_learner_type = "moderate"
    /\ last_engagement_level = "medium"
    /\ result.difficulty_adjustment =
           "Maintain current difficulty with gradual increases"
    /\ Len(result.study_plan) = 4

\* C18: the motivation tips are the low-engagement list for "low", the
\* high-engagement list for "high" and empty for "medium", whatever the
\* learner type and the student data.
C18_TipsByEngagementAlone ==
    Generated =>
        /\ (last_engagement_level = "low") => (result.motivation_tips = LowTips)
        /\ (last_engagement_level = "high") => (result.motivation_tips = HighTips)
        /\ (last_engagement_level = "medium") => (result.motivation_tips = <<>>)
        /\ \A lt \in LearnerLabels, student_data \in Features :
             generate_recommendations(lt, last_engagement_level,
                                      student_data).motivation_tips
                 = result.motivation_tips

\* medium engagement leaves the tips empty next to a full study plan
C18_Witness ==
    /\ Generated
    /\ last_engagement_level = "medium"
    /\ last_learner_type = "struggling"
    /\ result.motivation_tips = <<>>
    /\ result.study_plan # <<>>

\* C19: a student predicted advanced and highly engaged is told to increase
\* the difficulty and gets the high-engagement motivation tips.
C19_AdvancedAndHigh ==
    (Recommended /\ learner_result.learner_type = "advanced"
                 /\ engagement_result.engagement_level = "high") =>
        /\ result.recommendations.difficulty_adjustment
               = "Increase difficulty to maintain engagement"
        /\ result.recommendations.motivation_tips
               = << "Maintain your excellent momentum!",
                    "Challenge yourself with advanced topics",
                    "Share your knowledge with others",
                    "Set ambitious but realistic goals" >>

\* the two pipelines predict advanced and high for one student
C19_Witness ==
    /\ Recommended
    /\ result.learner_type = "advanced"
    /\ result.engagement_level = "high"
    /\ Len(result.recommendations.motivation_tips) = 4

\* C20: the resources are the same four items for every learner type and
\* engagement level, labels outside the known ones included.
C20_ResourcesFixed ==
    Generated =>
        result.resources = << "Interactive practice problems",
                              "Video tutorials",
                              "Peer study groups",
                              "One-on-one tutoring sessions" >>

\* labels outside both class sets still get the four resources
C20_Witness ==
    /\ Generated
    /\ last_learner_type \notin KnownLearnerTypes
    /\ last_engagement_level \notin KnownEngagementLevels
    /\ Len(result.resources) = 4
    /\ result.study_plan = <<>>

LearnerPredicted == pc = "called" /\ op = "predict_learner_type"

\* the keys of the learner schema
LearnerKeys == {LearnerCols[j] : j \in DOMAIN LearnerCols}

\* a key of the learner schema is present with a value that is no number
IllTyped(student_features) ==
    \E k \in (DOMAIN student_features) \cap LearnerKeys :
        student_features[k] = NonNumeric

\* C22: with a fitted learner model loaded, predict_learner_type raises
\* nothing; features that lack schema keys get a label, the missing entries
\* being 0 in the row, and features holding a schema key whose value is no
\* number get an error record without a label.
C22_MissingIsZeroIllTypedIsError ==
    (LearnerPredicted /\ "learner_classification_rf" \in DOMAIN models
                      /\ models["learner_classification_rf"].pipeline.fit = "fitted") =>
        /\ ~raised
        /\ \A j \in DOMAIN LearnerCols :
               (LearnerCols[j] \notin DOMAIN features) => (passed[1].X.row[j] = 0)
        /\ (~IllTyped(features)) =>
               (~IsError(result) /\ "learner_type" \in DOMAIN result)
        /\ IllTyped(features) =>
               (IsError(result) /\ DOMAIN result = {"error"})

\* a value that is no number under "accuracy", next to a numeric
\* "avg_attempts" and eight missing keys: an error record
C22_Witness ==
    /\ LearnerPredicted
    /\ "learner_classification_rf" \in DOMAIN models
    /\ features = ("avg_attempts" :> 1 @@ "accuracy" :> NonNumeric)
    /\ result = [error |-> <<"Prediction failed: ", "ValueError">>]

\* the results page has been through its AI-analysis section
Analysed == pc = "called" /\ analysis # "none"

\* C23: whenever get_adaptive_recommendations returned a successful result to
\* the results page, the page shows its AI-analysis section and does not fall
\* back to "Learning analysis is currently unavailable".
C23_SuccessIsShown ==
    (Analysed /\ Recommended) => (analysis = "shown")

\* C24: every successful result of get_adaptive_recommendations has a
\* non-empty study plan and a non-empty difficulty adjustment, whatever label
\* the loaded learner-classification pipeline returned.
C24_SuccessHasAPlan ==
    Recommended =>
        /\ result.recommendations.study_plan # <<>>
        /\ result.recommendations.difficulty_adjustment # ""

\* this step appended to quiz_history
Recorded == quiz_history' # quiz_history

\* this step was a run of show_quiz that drew the questions and found one of
\* them unanswered
RanUnanswered ==
    /\ event' \in {"run", "select", "Submit Quiz"}
    /\ screen' = "quiz"
    /\ ~AllAnswered(answers')

\* A step that records an attempt is a submit of a quiz with every question
\* answered; it appends one entry, makes quiz_results the results of the
\* questions of that quiz, clears current_quiz and moves to "results".
RecordsOnlyCompleteSubmit ==
    Recorded =>
        /\ event' = "Submit Quiz"
        /\ current_quiz # NoQuiz
        /\ Len(answers) = Len(current_quiz)
        /\ AllAnswered(answers)
        /\ Len(quiz_history') = Len(quiz_history) + 1
        /\ SubSeq(quiz_history', 1, Len(quiz_history)) = quiz_history
        /\ Len(quiz_results') = Len(current_quiz)
        /\ \A i \in DOMAIN current_quiz :
              /\ quiz_results'[i].question = current_quiz[i].question
              /\ quiz_results'[i].user_answer = answers[i]
        /\ quiz_history'[Len(quiz_history')].results = quiz_results'
        /\ current_quiz' = NoQuiz
        /\ current_page' = "results"

\* every submit of a completely answered quiz records
CompleteSubmitRecords ==
    (event' = "Submit Quiz" /\ screen = "quiz" /\ AllAnswered(answers)) => Recorded

\* C25, as stated: an attempt is recorded only by a submit with every
\* question answered, each such submit appends one entry, sets quiz_results,
\* clears current_quiz and moves to "results", and a render or submit with an
\* unanswered question changes none of quiz_history, quiz_results,
\* current_quiz and current_page.
C25_UnansweredChangesNothing ==
    [][ /\ RecordsOnlyCompleteSubmit
        /\ CompleteSubmitRecords
        /\ RanUnanswered =>
              UNCHANGED <<quiz_history, quiz_results, current_quiz, current_page>>
      ]_vars

\* C25, amended: as above, except that a render or submit with an unanswered
\* question records nothing: it leaves quiz_history, quiz_results and
\* current_page alone and keeps the quiz there is, generating one when there
\* is none.
C25_UnansweredRecordsNothing ==
    [][ /\ RecordsOnlyCompleteSubmit
        /\ CompleteSubmitRecords
        /\ RanUnanswered =>
              /\ UNCHANGED <<quiz_history, quiz_results, current_page>>
              /\ current_quiz' # NoQuiz
              /\ (current_quiz # NoQuiz) => (current_quiz' = current_quiz)
      ]_vars

\* a complete quiz has just been submitted and recorded
C25_Witness ==
    /\ event = "Submit Quiz"
    /\ screen = "pending"
    /\ current_page = "results"
    /\ current_quiz = NoQuiz
    /\ Len(quiz_history) = 1
    /\ Len(quiz_results) = Len(math_questions)
    /\ quiz_history[1].results = quiz_results

\* C26: no step removes, reorders or alters an entry of quiz_history, and the
\* k-th entry has attempt_number k.
C26_HistoryAppendOnly ==
    [][ /\ Len(quiz_history) <= Len(quiz_history')
        /\ SubSeq(quiz_history', 1, Len(quiz_history)) = quiz_history
        /\ \A k \in DOMAIN quiz_history' : quiz_history'[k].attempt_number = k
      ]_vars

\* two attempts are on record after the second Take Another Quiz
C26_Witness ==
    /\ event = "Take Another Quiz"
    /\ quiz_results = <<>>
    /\ Len(quiz_history) = 2
    /\ quiz_history[2].attempt_number = 2

\* a quiz was generated or an attempt recorded
HasQuiz == current_quiz # NoQuiz \/ quiz_history # <<>>

\* C27: a generated quiz or a recorded attempt implies registration, a run of
\* the quiz page in an unregistered session goes back to "home" without
\* generating a quiz, and user_registered never returns to false.
C27_QuizImpliesRegistration ==
    [][ /\ HasQuiz => user_registered
        /\ HasQuiz' => user_registered'
        /\ user_registered => user_registered'
        /\ (~user_registered /\ current_page = "quiz" /\ event' = "run") =>
              (current_page' = "home" /\ current_quiz' = NoQuiz)
      ]_vars

\* a registered student with an attempt on record is on a fresh quiz
C27_Witness ==
    /\ user_registered
    /\ screen = "quiz"
    /\ current_quiz # NoQuiz
    /\ quiz_history # <<>>

=============================================================================
